---- MODULE Spec2Model ----
(***************************************************************************)
(* Model of the phase-2 allocation engine (src/phase2/bot_trade.py).       *)
(*                                                                         *)
(* Number representation.  Prices are positive integers.  Allocations,     *)
(* volatility scalers, z-scores and breakout factors are fixed-point        *)
(* numbers in thousandths (1000 stands for 1.0), single-period returns are *)
(* in units of 1/10000, all rounded down.  Moving averages, trend          *)
(* strengths and the price-to-average distance are exact rationals         *)
(* [n |-> numerator, d |-> denominator] with d > 0, and are compared with  *)
(* the decimal thresholds of the source by cross-multiplication.           *)
(***************************************************************************)
EXTENDS Integers, Sequences, FiniteSets, TLC

VARIABLES
    price_history,         \* module global, line 4
    previous_allocation,   \* module global, line 5 (None before the first decision)
    highest_price_seen,    \* module global, line 6 (None before the first price)
    epoch,                 \* epoch argument of the latest make_decision call
    calls,                 \* number of make_decision calls made so far
    result,                \* mapping returned by the latest call
    decision,              \* locals of the latest call (signals, candidate allocation)
    same_price_run,        \* consecutive latest post-warmup calls given the same price
    price_changes,         \* calls so far whose price differed from the call before
    tree_input,            \* arguments of a stand-alone run of the regime decision tree
    tree_output            \* its outcome

vars == <<price_history, previous_allocation, highest_price_seen, epoch, calls,
          result, decision, same_price_run, price_changes, tree_input, tree_output>>

engine_vars == <<price_history, previous_allocation, highest_price_seen, epoch, calls,
                 result, decision, same_price_run, price_changes>>

tree_vars == <<tree_input, tree_output>>

(***************************************************************************)
(* Program constants (thousandths where they are reals in the source).     *)
(***************************************************************************)
None == -1

fast_trend_window == 3
medium_trend_window == 15
slow_trend_window == 50
breakout_window == 30
volatility_window == 10
zscore_window == 10
minimum_volatility_scaler == 350
maximum_volatility_scaler == 2000
minimum_allocation_change == 60
initial_allocation == 700
\* 0.90 / sqrt(252) = 0.05669467..., in units of 1/10^8
target_daily_volatility == 5669467

(***************************************************************************)
(* Bounds of the explored input space.                                     *)
(***************************************************************************)
MaxCalls == 13          \* calls per run of the sparse caller
MaxChanges == 3         \* price changes per run of the sparse caller
MaxEpoch == 110         \* largest epoch number the sparse caller supplies
EpochJump == 50         \* size of a gap the sparse caller may leave between epochs
MaxLongCalls == 101     \* calls per run of the dense caller
MaxLongChanges == 1     \* price changes per run of the dense caller

\* the sparse caller's prices: a peak, a fall, a partial recovery and a slip
PriceCycle == <<80, 47, 53, 52>>
\* the dense caller's prices
LongPrices == {55, 100}

(***************************************************************************)
(* Arithmetic helpers.                                                     *)
(***************************************************************************)
Rat(num, den) == [n |-> num, d |-> den]

\* r > a/b, r >= a/b, r < a/b for a rational r and a decimal threshold a/b (b > 0)
RatGT(r, a, b) == r.n * b > a * r.d
RatGE(r, a, b) == r.n * b >= a * r.d
RatLT(r, a, b) == r.n * b < a * r.d

Abs(x) == IF x < 0 THEN -x ELSE x
Max2(a, b) == IF a > b THEN a ELSE b

RECURSIVE NewtonSqrt(_, _)
NewtonSqrt(x, g) ==
    LET h == (g + x \div g) \div 2
    IN  IF h >= g THEN g ELSE NewtonSqrt(x, h)

\* math.sqrt, rounded down to an integer
ISqrt(x) == IF x <= 1 THEN x ELSE NewtonSqrt(x, x)

RECURSIVE SumTo(_, _)
SumTo(s, i) == IF i = 0 THEN 0 ELSE s[i] + SumTo(s, i - 1)

\* sum(values)
Sum(s) == SumTo(s, Len(s))

RECURSIVE SumSqTo(_, _)
SumSqTo(s, i) == IF i = 0 THEN 0 ELSE s[i] * s[i] + SumSqTo(s, i - 1)

RECURSIVE MaxTo(_, _)
MaxTo(s, i) == IF i = 1 THEN s[1] ELSE Max2(s[i], MaxTo(s, i - 1))

\* max(values) of a non-empty list
MaxOf(s) == MaxTo(s, Len(s))

\* the Python slice s[-k:]
LastN(s, k) == IF Len(s) <= k THEN s ELSE SubSeq(s, Len(s) - k + 1, Len(s))

\* n * sum(v^2) - sum(v)^2  =  n^2 * (population variance of s)
ScaledVariance(s) == Len(s) * SumSqTo(s, Len(s)) - Sum(s) * Sum(s)

(***************************************************************************)
(* WindowStatistics                                                        *)
(***************************************************************************)
compute_simple_moving_average(values) == Rat(Sum(values), Len(values))

\* sqrt(variance) = sqrt(10000 * n^2 * variance) / (100 * n); 0.0 when variance <= 0
compute_standard_deviation(values) ==
    IF ScaledVariance(values) <= 0
    THEN Rat(0, 1)
    ELSE Rat(ISqrt(10000 * ScaledVariance(values)), 100 * Len(values))

(***************************************************************************)
(* TrendMetrics                                                            *)
(***************************************************************************)
\* (average - slow) / slow
TrendStrength(average, slow) ==
    Rat(average.n * slow.d - slow.n * average.d, slow.n * average.d)

\* lines 45-61: the strengths derived from the three averages
TrendMetricsOf(fast, medium, slow) ==
    IF slow.n = 0
    THEN [fast_trend_strength |-> Rat(0, 1),
          medium_trend_strength |-> Rat(0, 1),
          fast_moving_average |-> fast,
          medium_moving_average |-> medium,
          slow_moving_average |-> slow]
    ELSE [fast_trend_strength |-> TrendStrength(fast, slow),
          medium_trend_strength |-> TrendStrength(medium, slow),
          fast_moving_average |-> fast,
          medium_moving_average |-> medium,
          slow_moving_average |-> slow]

compute_trend_metrics(history) ==
    TrendMetricsOf(
        compute_simple_moving_average(LastN(history, fast_trend_window)),
        compute_simple_moving_average(LastN(history, medium_trend_window)),
        compute_simple_moving_average(LastN(history, slow_trend_window)))

(***************************************************************************)
(* z-score of the price relative to the fast average, in thousandths       *)
(***************************************************************************)
compute_zscore_relative_to_fast_ma(history, current_price, fast_moving_average) ==
    IF Len(history) < Max2(zscore_window, fast_trend_window)
    THEN 0
    ELSE LET standard_deviation ==
                 compute_standard_deviation(LastN(history, zscore_window))
         IN  IF standard_deviation.n = 0
             THEN 0
             ELSE (1000 * (current_price * fast_moving_average.d
                             - fast_moving_average.n) * standard_deviation.d)
                     \div (fast_moving_average.d * standard_deviation.n)

(***************************************************************************)
(* VolatilityScaler                                                        *)
(***************************************************************************)
\* recent_prices[index + 1] / recent_prices[index] - 1.0, in units of 1/10000
Returns(recent_prices) ==
    [index \in 1..(Len(recent_prices) - 1) |->
        (recent_prices[index + 1] * 10000) \div recent_prices[index] - 10000]

\* raw_scaler = target_daily_volatility / realized_daily_volatility in thousandths:
\* with nv = ScaledVariance(returns) the realized volatility is
\* sqrt(nv) / (10000 * volatility_window), and the target is in units of 1/10^8
RawScaler(nv) ==
    (target_daily_volatility * volatility_window) \div (10 * ISqrt(nv))

compute_volatility_scaler(history) ==
    IF Len(history) < volatility_window + 1
    THEN 1000
    ELSE LET nv == ScaledVariance(Returns(LastN(history, volatility_window + 1)))
         IN  IF nv <= 0
             THEN 1000
             ELSE IF RawScaler(nv) < minimum_volatility_scaler
                  THEN minimum_volatility_scaler
                  ELSE IF RawScaler(nv) > maximum_volatility_scaler
                       THEN maximum_volatility_scaler
                       ELSE RawScaler(nv)

(***************************************************************************)
(* Breakout factor, in thousandths                                         *)
(***************************************************************************)
compute_breakout_factor(history, current_price) ==
    IF Len(history) < breakout_window
    THEN 0
    ELSE LET highest_recent_price == MaxOf(LastN(history, breakout_window))
         IN  IF highest_recent_price = 0
             THEN 0
             ELSE IF current_price - highest_recent_price >= 0
                  THEN 1000
                  ELSE IF 100 * (current_price - highest_recent_price)
                             >= -highest_recent_price
                       THEN 700
                       ELSE 0

(***************************************************************************)
(* DrawdownOverlay                                                         *)
(*                                                                         *)
(* drawdown = current_price / highest_price_seen - 1.0 is computed in      *)
(* IEEE-754 doubles.  When the price is exactly 0.55 times the peak the    *)
(* quotient rounds to the double nearest 0.55, which lies above 0.55, and  *)
(* the subtraction is exact, so drawdown = -0.44999999999999996, which is  *)
(* greater than the double -0.45: the test `drawdown <= -0.45` is false on *)
(* the boundary and true strictly below it.  At 0.65 times the peak the    *)
(* result is the double -0.35 itself and `drawdown <= -0.35` is true.      *)
(***************************************************************************)
DrawdownAtMost45(current_price, highest) == 100 * current_price < 55 * highest
DrawdownAtMost35(current_price, highest) == 100 * current_price <= 65 * highest

\* the peak replaced by the latest price on every call
UpdatedPeak_latest_price(highest, current_price) == current_price

\* lines 115-116: the peak after observing current_price
UpdatedPeak(highest, current_price) ==
    IF highest = None \/ current_price > highest THEN current_price ELSE highest

\* the overlay without its second branch, the cap at 0.4
apply_drawdown_overlay_no_cap(allocation, current_price, highest) ==
    LET peak == UpdatedPeak(highest, current_price)
    IN  [highest_price_seen |-> peak,
         allocation |->
            IF peak = None \/ peak <= 0
            THEN allocation
            ELSE IF DrawdownAtMost45(current_price, peak) THEN 0 ELSE allocation]

\* returns the overlaid allocation and the new value of highest_price_seen
apply_drawdown_overlay(allocation, current_price, highest) ==
    LET peak == UpdatedPeak(highest, current_price)
    IN  [highest_price_seen |-> peak,
         allocation |->
            IF peak = None \/ peak <= 0
            THEN allocation
            ELSE IF DrawdownAtMost45(current_price, peak)
                 THEN 0
                 ELSE IF DrawdownAtMost35(current_price, peak) /\ allocation > 400
                      THEN 400
                      ELSE allocation]

(***************************************************************************)
(* HysteresisFilter: returns the filtered allocation and the new value of  *)
(* previous_allocation                                                     *)
(***************************************************************************)
\* the filter returning an accepted allocation without storing it
apply_hysteresis_no_store(allocation, previous) ==
    IF previous = None
    THEN [allocation |-> allocation, previous_allocation |-> allocation]
    ELSE IF Abs(allocation - previous) < minimum_allocation_change
         THEN [allocation |-> previous, previous_allocation |-> previous]
         ELSE [allocation |-> allocation, previous_allocation |-> previous]

\* the filter comparing the signed difference instead of its absolute value
apply_hysteresis_signed(allocation, previous) ==
    IF previous = None
    THEN [allocation |-> allocation, previous_allocation |-> allocation]
    ELSE IF allocation - previous < minimum_allocation_change
         THEN [allocation |-> previous, previous_allocation |-> previous]
         ELSE [allocation |-> allocation, previous_allocation |-> allocation]

apply_hysteresis(allocation, previous) ==
    IF previous = None
    THEN [allocation |-> allocation, previous_allocation |-> allocation]
    ELSE IF Abs(allocation - previous) < minimum_allocation_change
         THEN [allocation |-> previous, previous_allocation |-> previous]
         ELSE [allocation |-> allocation, previous_allocation |-> allocation]

(***************************************************************************)
(* RegimeClassifier                                                        *)
(***************************************************************************)
\* (current_price - slow_moving_average) / slow_moving_average
PriceVsSlow(current_price, slow) ==
    Rat(current_price * slow.d - slow.n, slow.n)

\* lines 150-154
IsStrongUptrend(trend_metrics) ==
    /\ trend_metrics.fast_moving_average.n * trend_metrics.slow_moving_average.d
         > trend_metrics.slow_moving_average.n * trend_metrics.fast_moving_average.d
    /\ RatGT(trend_metrics.fast_trend_strength, 1, 100)
    /\ RatGT(trend_metrics.medium_trend_strength, 4, 1000)

\* lines 155-158
IsBearishRegime(trend_metrics, price_vs_slow) ==
    /\ trend_metrics.fast_moving_average.n * trend_metrics.slow_moving_average.d
         < trend_metrics.slow_moving_average.n * trend_metrics.fast_moving_average.d
    /\ RatLT(price_vs_slow, -1, 100)

\* the overbought reduction applied before the breakout raise instead of after it
StrongUptrendAllocation_breakout_last(zscore_fast, breakout_factor) ==
    IF breakout_factor >= 1000
    THEN 1000
    ELSE IF zscore_fast >= 1500
         THEN 800
         ELSE IF zscore_fast <= -500 THEN 1000 ELSE 900

\* lines 163-170: the three assignments run in order, the last one that applies wins
StrongUptrendAllocation(zscore_fast, breakout_factor) ==
    IF zscore_fast >= 1500
    THEN 800
    ELSE IF zscore_fast <= -500
         THEN 1000
         ELSE IF breakout_factor >= 1000 THEN 1000 ELSE 900

\* lines 173-179
MildUptrendAllocation(fast_trend_strength, medium_trend_strength, zscore_fast) ==
    LET base_allocation ==
            IF RatGT(fast_trend_strength, 5, 1000) \/ RatGT(medium_trend_strength, 3, 1000)
            THEN 800
            ELSE 600
    IN  IF zscore_fast <= -700
        THEN (IF base_allocation + 200 > 1000 THEN 1000 ELSE base_allocation + 200)
        ELSE base_allocation

\* lines 182-186
BearishAllocation(fast_trend_strength) ==
    IF RatLT(fast_trend_strength, -3, 100)
    THEN 0
    ELSE IF RatLT(fast_trend_strength, -15, 1000) THEN 200 ELSE 300

\* the neutral rule with a strict comparison
NeutralAllocation_strict(fast_trend_strength) ==
    IF RatGT(fast_trend_strength, 0, 1) THEN 500 ELSE 300

\* lines 188-190
NeutralAllocation(fast_trend_strength) ==
    IF RatGE(fast_trend_strength, 0, 1) THEN 500 ELSE 300

\* lines 146-190: the decision tree over the computed signals; `rule` names the
\* return statement taken
RegimeTree(trend_metrics, current_price, zscore_fast, breakout_factor) ==
    LET price_vs_slow == PriceVsSlow(current_price, trend_metrics.slow_moving_average)
    IN  IF trend_metrics.slow_moving_average.n = 0
        THEN [rule |-> "degenerate", allocation |-> 700]
        ELSE IF IsStrongUptrend(trend_metrics) /\ RatGT(price_vs_slow, 1, 100)
        THEN [rule |-> "strong_uptrend",
              allocation |-> StrongUptrendAllocation(zscore_fast, breakout_factor)]
        ELSE IF RatGT(price_vs_slow, 0, 1)
        THEN [rule |-> "mild_uptrend",
              allocation |-> MildUptrendAllocation(trend_metrics.fast_trend_strength,
                                                   trend_metrics.medium_trend_strength,
                                                   zscore_fast)]
        ELSE IF IsBearishRegime(trend_metrics, price_vs_slow)
        THEN [rule |-> "bearish",
              allocation |-> BearishAllocation(trend_metrics.fast_trend_strength)]
        ELSE [rule |-> "neutral",
              allocation |-> NeutralAllocation(trend_metrics.fast_trend_strength)]

compute_regime_based_allocation(history, current_price) ==
    LET trend_metrics == compute_trend_metrics(history)
    IN  RegimeTree(trend_metrics, current_price,
                   compute_zscore_relative_to_fast_ma(history, current_price,
                                                      trend_metrics.fast_moving_average),
                   compute_breakout_factor(history, current_price))

(***************************************************************************)
(* DecisionOrchestrator                                                    *)
(***************************************************************************)
\* the warmup length without the slow window
warmup_period_without_slow == Max2(volatility_window + 1, zscore_window + 1)

warmup_period ==
    Max2(slow_trend_window, Max2(volatility_window + 1, zscore_window + 1))

\* lines 210-213
EffectiveScaler(regime_allocation, volatility_scaler) ==
    IF regime_allocation > 700 /\ volatility_scaler < 1000
    THEN Max2(900, volatility_scaler)
    ELSE volatility_scaler

\* the clamp without its upper limit
ClampUnit_no_upper(scaled_allocation) ==
    IF scaled_allocation < 0 THEN 0 ELSE scaled_allocation

\* lines 217-220
ClampUnit(scaled_allocation) ==
    IF scaled_allocation < 0
    THEN 0
    ELSE IF scaled_allocation > 1000 THEN 1000 ELSE scaled_allocation

\* the returned mapping
Weights(final_allocation) ==
    [key \in {"Asset B", "Cash"} |->
        IF key = "Asset B" THEN final_allocation ELSE 1000 - final_allocation]

NoSignals ==
    [pipeline |-> FALSE, rule |-> "none", regime_allocation |-> 0,
     volatility_scaler |-> 0, scaled_allocation |-> 0,
     fast_trend_strength |-> Rat(0, 1), medium_trend_strength |-> Rat(0, 1),
     fast_window |-> 0, medium_window |-> 0, slow_window |-> 0,
     candidate |-> 0]

\* lines 207-222: the locals of a call that runs the full pipeline on `history`
\* (the log with the current price already appended)
Pipeline(history, current_price, highest) ==
    LET trend_metrics == compute_trend_metrics(history)
        regime == compute_regime_based_allocation(history, current_price)
        volatility_scaler == compute_volatility_scaler(history)
        effective_scaler == EffectiveScaler(regime.allocation, volatility_scaler)
        scaled_allocation == ClampUnit((regime.allocation * effective_scaler) \div 1000)
        overlay == apply_drawdown_overlay(scaled_allocation, current_price, highest)
    IN  [pipeline |-> TRUE, rule |-> regime.rule,
         regime_allocation |-> regime.allocation,
         volatility_scaler |-> volatility_scaler,
         scaled_allocation |-> scaled_allocation,
         fast_trend_strength |-> trend_metrics.fast_trend_strength,
         medium_trend_strength |-> trend_metrics.medium_trend_strength,
         fast_window |-> Len(LastN(history, fast_trend_window)),
         medium_window |-> Len(LastN(history, medium_trend_window)),
         slow_window |-> Len(LastN(history, slow_trend_window)),
         candidate |-> overlay.allocation]

\* the locals of a call: a warmup call passes the default to the hysteresis filter
Locals(history, epoch_arg, current_price, highest) ==
    IF epoch_arg < warmup_period
    THEN [NoSignals EXCEPT !.candidate = initial_allocation]
    ELSE Pipeline(history, current_price, highest)

\* each local is bound once, in the order in which the statements run
make_decision(epoch_arg, current_price) ==
    \E history \in {Append(price_history, current_price)},
       highest \in {UpdatedPeak(highest_price_seen, current_price)} :
    \E locals \in {Locals(history, epoch_arg, current_price, highest)} :
    \E filtered \in {apply_hysteresis(locals.candidate, previous_allocation)} :
        /\ price_history' = history
        /\ highest_price_seen' = highest
        /\ previous_allocation' = filtered.previous_allocation
        /\ result' = Weights(filtered.allocation)
        /\ decision' = locals
        /\ epoch' = epoch_arg
        /\ calls' = calls + 1
        /\ same_price_run' =
              IF epoch_arg < warmup_period
              THEN 0
              ELSE IF epoch >= warmup_period /\ price_history[Len(price_history)] = current_price
                   THEN (IF same_price_run > slow_trend_window
                         THEN same_price_run
                         ELSE same_price_run + 1)
                   ELSE 1
        /\ UNCHANGED tree_vars

(***************************************************************************)
(* Callers.  Epochs are non-negative, strictly increasing and start at 0.  *)
(***************************************************************************)
NoTreeInput ==
    [fast |-> Rat(0, 1), medium |-> Rat(0, 1), slow |-> Rat(0, 1),
     current_price |-> 0, zscore_fast |-> 0, breakout_factor |-> 0]

NoTreeOutput == [rule |-> "none", allocation |-> 0]

Init ==
    /\ price_history = <<>>
    /\ previous_allocation = None
    /\ highest_price_seen = None
    /\ epoch = -1
    /\ calls = 0
    /\ result = Weights(0)
    /\ decision = NoSignals
    /\ same_price_run = 0
    /\ price_changes = 0
    /\ tree_input = NoTreeInput
    /\ tree_output = NoTreeOutput

\* 1 when current_price differs from the price of the call before, else 0
Changed(current_price) ==
    IF calls >= 1 /\ price_history[Len(price_history)] # current_price THEN 1 ELSE 0

\* the entry that follows price `p` on the cycle
NextOnCycle(p) ==
    LET i == CHOOSE j \in 1..Len(PriceCycle) : PriceCycle[j] = p
    IN  PriceCycle[(i % Len(PriceCycle)) + 1]

\* the prices the sparse caller may supply next: any price of the cycle on the
\* first call, afterwards the same price again or the next one on the cycle
SparsePrices ==
    IF calls = 0
    THEN {PriceCycle[j] : j \in 1..Len(PriceCycle)}
    ELSE {price_history[Len(price_history)], NextOnCycle(price_history[Len(price_history)])}

\* a caller that may leave gaps between epochs
SparseCall ==
    \E epoch_arg \in {epoch + 1, epoch + EpochJump}, current_price \in SparsePrices :
        /\ calls < MaxCalls
        /\ epoch_arg <= MaxEpoch
        /\ (calls = 0 => epoch_arg = 0)
        /\ price_changes + Changed(current_price) <= MaxChanges
        /\ price_changes' = price_changes + Changed(current_price)
        /\ make_decision(epoch_arg, current_price)

Next == SparseCall

Spec == Init /\ [][Next]_vars

\* a caller that supplies every epoch 0, 1, 2, ...
DenseCall ==
    \E current_price \in LongPrices :
        /\ calls < MaxLongCalls
        /\ price_changes + Changed(current_price) <= MaxLongChanges
        /\ price_changes' = price_changes + Changed(current_price)
        /\ make_decision(epoch + 1, current_price)

NextLong == DenseCall

SpecLong == Init /\ [][NextLong]_vars

(***************************************************************************)
(* The regime decision tree on its own: the averages, the price, the       *)
(* z-score and the breakout factor are drawn from sets that straddle every *)
(* threshold of the tree; the strengths are derived from the averages as   *)
(* compute_trend_metrics derives them.                                     *)
(***************************************************************************)
TreeFastAverages == {960, 975, 985, 1000, 1004, 1006, 1010, 1011, 1020}
TreeMediumAverages == {1000, 1003, 1004, 1005}
TreeSlowAverages == {0, 1000}
TreePrices == {985, 990, 1000, 1005, 1010, 1011, 1020}
TreeZScores == {-800, -700, -600, -500, 0, 1499, 1500}
TreeBreakoutFactors == {0, 700, 1000}

InitRegime ==
    /\ price_history = <<>>
    /\ previous_allocation = None
    /\ highest_price_seen = None
    /\ epoch = -1
    /\ calls = 0
    /\ result = Weights(0)
    /\ decision = NoSignals
    /\ same_price_run = 0
    /\ price_changes = 0
    /\ tree_input \in
          [fast : {Rat(f, 1) : f \in TreeFastAverages},
           medium : {Rat(m, 1) : m \in TreeMediumAverages},
           slow : {Rat(w, 1) : w \in TreeSlowAverages},
           current_price : TreePrices,
           zscore_fast : TreeZScores,
           breakout_factor : TreeBreakoutFactors]
    /\ tree_output = NoTreeOutput

Classify ==
    /\ tree_output = NoTreeOutput
    /\ tree_output' =
          RegimeTree(TrendMetricsOf(tree_input.fast, tree_input.medium, tree_input.slow),
                     tree_input.current_price, tree_input.zscore_fast,
                     tree_input.breakout_factor)
    /\ UNCHANGED <<engine_vars, tree_input>>

NextRegime == Classify

SpecRegime == InitRegime /\ [][NextRegime]_vars

(***************************************************************************)
(* Properties                                                              *)
(***************************************************************************)
RiskyWeight == result["Asset B"]
CashWeight == result["Cash"]
LastPrice == price_history[Len(price_history)]

\* C1: every call returns a mapping with exactly the keys "Asset B" and "Cash",
\* both values in [0,1] and summing to exactly 1.0.
WeightsSumToOne ==
    calls >= 1 =>
        /\ DOMAIN result = {"Asset B", "Cash"}
        /\ RiskyWeight >= 0 /\ RiskyWeight <= 1000
        /\ CashWeight >= 0 /\ CashWeight <= 1000
        /\ RiskyWeight + CashWeight = 1000

\* a call whose scaled allocation exceeded 1.0 before the clamp and was returned
WitnessClampedToOne ==
    /\ decision.pipeline
    /\ (decision.regime_allocation
          * EffectiveScaler(decision.regime_allocation, decision.volatility_scaler))
         \div 1000 > 1000
    /\ RiskyWeight = 1000

\* C2: whenever the current price is at most 0.55 times the highest price seen so
\* far, the call returns a risky weight of exactly 0.0.  Stated for the calls with
\* epoch >= 50, the ones that run the drawdown overlay.
DrawdownFloorAtBoundary ==
    (calls >= 1 /\ epoch >= 50 /\ 100 * LastPrice <= 55 * highest_price_seen) =>
        RiskyWeight = 0

\* C3: every call with epoch < 50 returns the default 0.7 and runs none of the
\* regime, volatility and drawdown logic, whatever the prices are.
WarmupReturnsDefault ==
    (calls >= 1 /\ epoch < 50) =>
        /\ RiskyWeight = 700
        /\ previous_allocation = 700
        /\ ~decision.pipeline

\* the last warmup call, after the price has fallen below the peak
WitnessWarmupAfterFall ==
    /\ epoch = 49
    /\ price_changes >= 1
    /\ LastPrice < highest_price_seen
    /\ RiskyWeight = 700

\* C4: on every call after the first, a candidate less than 0.06 away from the
\* stored previous_allocation is replaced by it and the store is left alone,
\* any other candidate is returned and stored; two consecutive risky weights
\* are equal or at least 0.06 apart, and the returned weight is the stored one.
HysteresisBand ==
    [][calls >= 1 =>
          /\ IF Abs(decision'.candidate - previous_allocation) < 60
             THEN /\ RiskyWeight' = previous_allocation
                  /\ previous_allocation' = previous_allocation
             ELSE /\ RiskyWeight' = decision'.candidate
                  /\ previous_allocation' = decision'.candidate
          /\ (RiskyWeight' = RiskyWeight \/ Abs(RiskyWeight' - RiskyWeight) >= 60)
          /\ RiskyWeight' = previous_allocation']_vars

\* a pipeline call whose candidate was suppressed by the filter
WitnessChangeSuppressed ==
    /\ calls >= 2
    /\ decision.pipeline
    /\ decision.candidate # RiskyWeight
    /\ RiskyWeight = previous_allocation

\* C5: after every call highest_price_seen is the maximum of the prices supplied
\* so far, and it never decreases from one call to the next.
PeakTracking ==
    [][calls' >= 1 =>
          /\ \A i \in 1..Len(price_history') : price_history'[i] <= highest_price_seen'
          /\ \E i \in 1..Len(price_history') : price_history'[i] = highest_price_seen'
          /\ (calls >= 1 => highest_price_seen' >= highest_price_seen)]_vars

\* the peak lies strictly inside the log: prices rose to it and fell again
WitnessPeakInside ==
    /\ calls >= 3
    /\ price_history[1] < highest_price_seen
    /\ LastPrice < highest_price_seen

\* C6: once the same price has been supplied on 51 consecutive calls with
\* epoch >= 50 the risky weight no longer changes, and it lies within 0.06 of the
\* allocation computed for that price before the hysteresis filter.
HysteresisFixedPoint ==
    [][same_price_run' >= 51 =>
          /\ RiskyWeight' = RiskyWeight
          /\ Abs(RiskyWeight' - decision'.candidate) < 60]_vars

\* 51 equal prices after warmup, following a different earlier price
WitnessSettled ==
    /\ same_price_run >= 51
    /\ price_history[1] # LastPrice
    /\ decision.pipeline

\* C7: a fresh engine fed price 100 at epochs 0, 1, 2, ... returns 0.7 up to
\* epoch 49; from epoch 50 on both trend strengths are 0, the volatility scaler
\* is 1.0, the neutral rule gives 0.5 and the risky weight is exactly 0.5.
ConstantPriceScenario ==
    (/\ calls >= 1
     /\ epoch = calls - 1
     /\ \A i \in 1..Len(price_history) : price_history[i] = 100) =>
        /\ (epoch <= 49 => RiskyWeight = 700)
        /\ (epoch >= 50 =>
              /\ decision.pipeline
              /\ decision.fast_trend_strength.n = 0
              /\ decision.medium_trend_strength.n = 0
              /\ decision.volatility_scaler = 1000
              /\ decision.rule = "neutral"
              /\ decision.regime_allocation = 500
              /\ RiskyWeight = 500)

\* epoch 59 of the constant series
WitnessConstantSeries ==
    /\ calls = 60
    /\ epoch = 59
    /\ \A i \in 1..Len(price_history) : price_history[i] = 100
    /\ RiskyWeight = 500

\* C8: with a positive slow average the tree takes exactly one of the rules
\* strong uptrend, mild uptrend, bearish, neutral, the first one in that order
\* whose condition holds, returns that rule's value, and the value is in [0,1].
RegimeDecisionTable ==
    (tree_output # NoTreeOutput /\ tree_input.slow.n > 0) =>
        LET f == tree_input.fast.n
            m == tree_input.medium.n
            w == tree_input.slow.n
            p == tree_input.current_price
            z == tree_input.zscore_fast
            b == tree_input.breakout_factor
            fastAbove(num, den) == den * (f - w) > num * w
            fastBelow(num, den) == den * (f - w) < num * w
            mediumAbove(num, den) == den * (m - w) > num * w
            strong == f > w /\ fastAbove(1, 100) /\ mediumAbove(4, 1000)
                        /\ 100 * (p - w) > w
            mild == p > w
            bearish == f < w /\ 100 * (p - w) < -w
            rule == IF strong THEN "strong_uptrend"
                    ELSE IF mild THEN "mild_uptrend"
                    ELSE IF bearish THEN "bearish"
                    ELSE "neutral"
            mildBase == IF fastAbove(5, 1000) \/ mediumAbove(3, 1000) THEN 800 ELSE 600
            value ==
                CASE rule = "strong_uptrend" ->
                        IF z >= 1500 THEN 800
                        ELSE IF b >= 1000 \/ z <= -500 THEN 1000 ELSE 900
                  [] rule = "mild_uptrend" ->
                        IF z <= -700
                        THEN (IF mildBase + 200 > 1000 THEN 1000 ELSE mildBase + 200)
                        ELSE mildBase
                  [] rule = "bearish" ->
                        IF fastBelow(-3, 100) THEN 0
                        ELSE IF fastBelow(-15, 1000) THEN 200 ELSE 300
                  [] rule = "neutral" ->
                        IF f >= w THEN 500 ELSE 300
        IN  /\ tree_output.rule = rule
            /\ tree_output.allocation = value
            /\ tree_output.allocation >= 0 /\ tree_output.allocation <= 1000

\* a strong uptrend at a new high that is overbought: the breakout raises the
\* base to 1.0 and the z-score then lowers it to 0.8
WitnessOverboughtBreakout ==
    /\ tree_output.rule = "strong_uptrend"
    /\ tree_input.breakout_factor = 1000
    /\ tree_input.zscore_fast >= 1500
    /\ tree_output.allocation = 800

\* C9: the log holds one price per call, and a call that runs the full pipeline
\* sees at least 50 prices, so the three averages span 3, 15 and 50 prices.
WarmupGuaranteesFullWindows ==
    /\ Len(price_history) = calls
    /\ decision.pipeline =>
          /\ Len(price_history) >= 50
          /\ decision.fast_window = 3
          /\ decision.medium_window = 15
          /\ decision.slow_window = 50

\* C10: with epoch >= 50 and the price at least 35% below the peak the
\* returned risky weight is at most 0.4.
DrawdownCapAtOutput ==
    (calls >= 1 /\ epoch >= 50 /\ 100 * LastPrice <= 65 * highest_price_seen) =>
        RiskyWeight <= 400

\* C10, the cap placed where the code applies it: with epoch >= 50 and the price at least 35% below the peak the
\* allocation handed to the hysteresis filter is at most 0.4; the returned risky
\* weight is that allocation or a previous allocation less than 0.06 away from
\* it, hence below 0.46.
DrawdownCapBeforeHysteresis ==
    (calls >= 1 /\ epoch >= 50 /\ 100 * LastPrice <= 65 * highest_price_seen) =>
        /\ decision.candidate <= 400
        /\ (RiskyWeight = decision.candidate
              \/ Abs(RiskyWeight - decision.candidate) < 60)
        /\ RiskyWeight < 460

\* the cap lowered the scaled allocation to 0.4 and the filter kept a larger
\* previous allocation
WitnessCapHeldBack ==
    /\ calls >= 1
    /\ epoch >= 50
    /\ 100 * LastPrice <= 65 * highest_price_seen
    /\ decision.scaled_allocation > 400
    /\ decision.candidate = 400
    /\ RiskyWeight > 400

====
